---------------------------- MODULE Spec2Model ----------------------------
(***************************************************************************)
(* A model of local-next-month (src/main.py): the listing-site client      *)
(* clientCAPI (URL construction, the shelve-backed _request, the           *)
(* pagination scan, the concert extraction with lineup expansion) and the  *)
(* playlist assembly of create_playlist (artist resolution, set            *)
(* deduplication, top tracks, shuffling, batching by 100, append calls).   *)
(*                                                                         *)
(* Markup is modelled as the sequence of the elements the code looks at:   *)
(* a body is a sequence of nodes, the empty body is the empty sequence     *)
(* (Python's falsy ""), find_all(tag) keeps the nodes of that tag in       *)
(* document order.  The music service is a fixed catalogue: what the       *)
(* artist search returns for each query and each artist's top tracks.      *)
(***************************************************************************)
EXTENDS Integers, Sequences, FiniteSets, TLC

(***************************************************************************)
(* Bounds of the model and constants of the program.                       *)
(***************************************************************************)
\* Listing pages 1..MaxVaried may hold any body of ListingPool; later pages
\* hold the filler page, a terminator or a failure.
MaxVaried == 1

\* The longest track list the batching is checked on.
MaxTracks == 250

\* range(1, 31) of _get_metro_area_pages: the last page index requested.
PageCap == 30

\* split_list_by_n(tracks, 100) of create_playlist.
BatchSize == 100

(***************************************************************************)
(* Sequences.                                                              *)
(***************************************************************************)
Min(a, b) == IF a <= b THEN a ELSE b

\* Python's array[i:j] for 0 <= i, 0 <= j (zero-based, j exclusive, clamped).
Slice(array, i, j) ==
    LET hi == Min(j, Len(array))
    IN  IF i >= hi THEN << >> ELSE [k \in 1..(hi - i) |-> array[i + k]]

RECURSIVE Concat(_)
Concat(ss) == IF ss = << >> THEN << >> ELSE Head(ss) \o Concat(Tail(ss))

Range(s) == {s[k] : k \in 1..Len(s)}

\* The number of positions of s holding x.
Count(s, x) == Cardinality({k \in 1..Len(s) : s[k] = x})

\* Same elements with the same multiplicities.
SameBag(s, t) ==
    /\ Len(s) = Len(t)
    /\ \A x \in Range(s) \cup Range(t) : Count(s, x) = Count(t, x)

NoDuplicates(s) == \A a, b \in 1..Len(s) : s[a] = s[b] => a = b

\* str.find(needle) != -1: needle occurs as a contiguous run of text.
Contains(text, needle) ==
    \E k \in 0..(Len(text) - Len(needle)) :
        \A m \in 1..Len(needle) : text[k + m] = needle[m]

(***************************************************************************)
(* Markup.                                                                 *)
(***************************************************************************)
\* The literal of _is_last_page, word by word (the match is case-sensitive).
NoResultsText == <<"Your", "search", "returned", "no", "results">>

\* No a.thumb was found: URLs are tuples of their parts.
NoHref == << >>

Node(tag, name, words, href, links) ==
    [tag |-> tag, name |-> name, words |-> words, href |-> href,
     links |-> links]

\* <p>words</p>
P(words) == Node("p", "", words, NoHref, << >>)

\* <strong>name</strong>; href is the href of the a.thumb found from its
\* fifth ancestor, NoHref when that lookup finds nothing.
Strong(name, href) == Node("strong", name, << >>, href, << >>)

\* <... id="lineup"> holding one <a> per name of links.
Lineup(links) == Node("lineup", "", << >>, NoHref, links)

\* Markup that is neither a paragraph, a strong nor a lineup.
Other == Node("other", "", << >>, NoHref, << >>)

\* BeautifulSoup(page).find_all(tag): the nodes of that tag, document order.
FindAll(page, tag) == SelectSeq(page, LAMBDA n : n.tag = tag)

EmptyBody == << >>


\* Listing pages.
HrefA == <<"concerts", "artist-a">>

HrefB == <<"festivals", "artist-b">>

HrefD == <<"concerts", "artist-d">>

PageAB == <<Other, Strong("Artist A", HrefA), Strong("Artist B", HrefB)>>

PageABNoThumb == <<Strong("Artist A", HrefA), Strong("Artist B", NoHref)>>

\* A lower-case "no results" paragraph (no match), a deny-listed name, a
\* second spelling of Artist A, an artist without top tracks.
PageMixed ==
    <<P(<<"your", "search", "returned", "no", "results">>),
      Strong("Outdoor", NoHref), Strong("ARTIST A", HrefA),
      Strong("Artist D", HrefD)>>

\* A page with no paragraph and no strong element at all.
FillerBody == <<Other>>

NoResultsBody ==
    <<Other, P(<<"Sorry.", "Your", "search", "returned", "no", "results",
                 "for", "these", "dates.">>)>>

\* The body of a non-2xx answer.
ErrorBody == <<P(<<"500", "Internal", "Server", "Error">>)>>

ListingPool ==
    {PageAB, PageABNoThumb, PageMixed, FillerBody, NoResultsBody, EmptyBody}

\* Detail pages of an event.
DetailNoLineup == <<Other, P(<<"Tickets">>)>>

DetailLineup == <<Other, Lineup(<<"Artist C", "Artist A", "Artist E">>)>>

DetailPool == {DetailNoLineup, DetailLineup}

(***************************************************************************)
(* The music service: a fixed catalogue.                                   *)
(***************************************************************************)
\* str.lower() on the names of the model.
Lower(s) ==
    CASE s = "Artist A" -> "artist a"
      [] s = "ARTIST A" -> "artist a"
      [] s = "Artist A Tribute" -> "artist a tribute"
      [] s = "Artist B" -> "artist b"
      [] s = "Artist C" -> "artist c"
      [] s = "Artist D" -> "artist d"
      [] s = "Outdoor" -> "outdoor"
      [] OTHER -> s

Artist(name, uri) == [name |-> name, uri |-> uri]

\* spotify.search(q, type='artist', limit=50)['artists']['items'].
Search(q) ==
    CASE Lower(q) = "artist a" ->
            <<Artist("Artist A", "spotify:artist:A"),
              Artist("Artist A Tribute", "spotify:artist:T")>>
      [] Lower(q) = "artist b" ->
            <<Artist("Artist A Tribute", "spotify:artist:T")>>
      [] Lower(q) = "artist c" -> <<Artist("Artist C", "spotify:artist:C")>>
      [] Lower(q) = "artist d" -> <<Artist("Artist D", "spotify:artist:D")>>
      [] Lower(q) = "outdoor" -> <<Artist("Outdoor", "spotify:artist:O")>>
      [] OTHER -> << >>

\* spotify.artist_top_tracks(artist)['tracks'], uris only.
TopTracks(artist) ==
    CASE artist = "spotify:artist:A" ->
            <<"spotify:track:A1", "spotify:track:A2">>
      [] artist = "spotify:artist:C" -> <<"spotify:track:C1">>
      [] artist = "spotify:artist:O" -> <<"spotify:track:O1">>
      [] OTHER -> << >>

\* Python's None.
None == "None"

\* get_spotify_artist_uri: the first item's uri when its name equals the
\* query ignoring case, None otherwise.
get_spotify_artist_uri(concert) ==
    LET items == Search(concert)
    IN  IF items # << >> /\ Lower(items[1].name) = Lower(concert)
        THEN items[1].uri
        ELSE None

\* list(set(x)): the distinct elements in an order the hash seed decides.
ListOfSet(S) ==
    {f \in [1..Cardinality(S) -> S] :
        \A a, b \in 1..Cardinality(S) : f[a] = f[b] => a = b}

RECURSIVE ResolveLoop(_, _)
ResolveLoop(concerts, spotify_artist_uris) ==
    IF concerts = << >> THEN spotify_artist_uris
    ELSE LET uri == get_spotify_artist_uri(Head(concerts))
         IN  ResolveLoop(Tail(concerts),
                         IF uri # None THEN Append(spotify_artist_uris, uri)
                                       ELSE spotify_artist_uris)

\* The bug of returning the list without passing it through set().
get_spotify_artist_uris_nodedup(concerts) == {ResolveLoop(concerts, << >>)}

\* get_spotify_artist_uris: every list the call may return.
get_spotify_artist_uris(concerts) ==
    ListOfSet(Range(ResolveLoop(concerts, << >>)))

\* The bug of taking every top track of an artist, not the first.
RECURSIVE get_top_track_from_artists_all(_)
get_top_track_from_artists_all(artists) ==
    IF artists = << >> THEN << >>
    ELSE TopTracks(Head(artists)) \o get_top_track_from_artists_all(Tail(artists))

RECURSIVE get_top_track_from_artists(_)
get_top_track_from_artists(artists) ==
    IF artists = << >> THEN << >>
    ELSE LET tops == TopTracks(Head(artists))
         IN  (IF tops = << >> THEN << >> ELSE <<tops[1]>>)
             \o get_top_track_from_artists(Tail(artists))

\* The bug of shuffling through a set, which merges equal names.
Shuffles_dedup(x) == ListOfSet(Range(x))

\* random.shuffle(x): every order of x.
Shuffles(x) ==
    {[k \in 1..Len(x) |-> x[f[k]]] : f \in Permutations(1..Len(x))}

RECURSIVE SplitLoop(_, _, _, _, _)
SplitLoop(array, n, i, j, split) ==
    IF i <= Len(array)
    THEN SplitLoop(array, n, i + n, j + n,
                   Append(split, Slice(array, i, Min(Len(array), j))))
    ELSE split

\* The bug of starting with j = n - 1: each batch loses its last track.
split_list_by_n_short(array, n) == SplitLoop(array, n, 0, n - 1, << >>)

split_list_by_n(array, n) == SplitLoop(array, n, 0, n, << >>)

(***************************************************************************)
(* The listing site and its URLs.                                          *)
(***************************************************************************)
IsLeap(y) == (y % 4 = 0 /\ y % 100 # 0) \/ y % 400 = 0

\* calendar.monthrange(year, month)[1]
DaysInMonth(year, month) ==
    IF month = 2 THEN (IF IsLeap(year) THEN 29 ELSE 28)
    ELSE IF month \in {4, 6, 9, 11} THEN 30 ELSE 31

Date(year, month, day) == [year |-> year, month |-> month, day |-> day]

\* _create_url: the template with its eight fields filled in.
create_url(metro_id, start_date, end_date, page) ==
    <<"metro-areas", metro_id,
      start_date.month, start_date.day, start_date.year,
      end_date.month, end_date.day, end_date.year, page>>

\* _is_last_page: True when some paragraph's text contains the literal.
is_last_page(page) ==
    \E k \in 1..Len(page) :
        page[k].tag = "p" /\ Contains(page[k].words, NoResultsText)

Response(status, body) == [status |-> status, body |-> body]

\* What requests.get may produce for a listing page of the given index, on
\* a site whose query has result pages 1..depth.
ListingResponses(index, depth) ==
    IF index > depth
    THEN {Response("ok", NoResultsBody), Response("ok", EmptyBody),
          Response("http_error", EmptyBody), Response("timeout", EmptyBody)}
    ELSE IF index <= MaxVaried
    THEN {Response("ok", b) : b \in ListingPool}
         \cup {Response("http_error", ErrorBody), Response("http_error", EmptyBody),
               Response("timeout", EmptyBody)}
    ELSE {Response("ok", FillerBody), Response("timeout", EmptyBody)}

\* What requests.get may produce for an event's detail page.
DetailResponses ==
    {Response("ok", b) : b \in DetailPool}
    \cup {Response("http_error", ErrorBody), Response("timeout", EmptyBody)}

IsListingUrl(url) == Len(url) = 9

SiteResponses(url, depth) ==
    IF IsListingUrl(url) THEN ListingResponses(url[9], depth) ELSE DetailResponses


(***************************************************************************)
(* The program's state.                                                    *)
(***************************************************************************)
VARIABLES
    site,       \* the listing site: the number of result pages of a query
    db,         \* the shelve 'database': URL -> body
    args,       \* main's arguments: [ids, year, month]
    pc,         \* where create_playlist stands
    area,       \* the index in args.ids of the metro area being read
    i,          \* _get_metro_area_pages: the page index
    pages,      \* _get_metro_area_pages: the pages kept so far
    asked,      \* history: the page indices this scan requested, in order
    served,     \* history: the bodies _request returned to this scan, by index
    pos,        \* get_metro_area_concerts: <<page, strong>> being read
    got,        \* get_metro_area_concerts: its local list concerts
    returned,   \* history: what the last get_metro_area_concerts returned
    concerts,   \* create_playlist: the names of all areas
    artists,    \* create_playlist: the argument of get_top_track_from_artists
    tracks,     \* create_playlist: the track list
    batches,    \* split_list_by_n(tracks, 100)
    appended,   \* history: the tracks argument of each user_playlist_add_tracks
    lastReq,    \* history: the last _request call
    net,        \* history: every requests.get, as [url, status, body]
    err         \* the exception that ended the run, "" when none

vars ==
    <<site, db, args, pc, area, i, pages, asked, served, pos, got, returned, concerts,
      artists, tracks, batches, appended, lastReq, net, err>>

\* The argument lists and months the model runs on.
IdLists == {<< >>, <<7>>, <<7, 7>>, <<7, 9>>}

Months == {<<2024, 2>>, <<2025, 11>>}

\* The sites the whole run is checked on: short ones and one deeper than
\* the scan reads; a run over several areas is checked on the site without
\* result pages, where the pages come from the database.
Depths(ids) == IF Len(ids) > 1 THEN {0} ELSE 0..MaxVaried \cup {PageCap}

start_date(a) == Date(a.year, a.month, 1)

end_date(a) == Date(a.year, a.month, DaysInMonth(a.year, a.month))

PageUrl(a, metro_id, index) ==
    create_url(metro_id, start_date(a), end_date(a), index)

\* What earlier runs may have left in the database.
Caches(a) ==
    IF a.ids = << >> THEN {<< >>}
    ELSE {<< >>,
          PageUrl(a, a.ids[1], 1) :> PageAB,
          PageUrl(a, a.ids[1], 1) :> NoResultsBody,
          HrefB :> DetailLineup}

NoRequest ==
    [url |-> << >>, status |-> "none", page |-> EmptyBody, fetches |-> 0,
     before |-> << >>, sent |-> 0]

(***************************************************************************)
(* _request.                                                               *)
(***************************************************************************)
\* "if url in db"
CacheHit(url, d) == url \in DOMAIN d

\* The bug of fetching although the database holds the key.
RequestOutcomes_refetch(url, d, depth) ==
    {[url |-> url, status |-> r.status, page |-> r.body, fetches |-> 1, db |-> d]
        : r \in SiteResponses(url, depth)}

\* Every way one call _request(url) can go on database d: the body it
\* returns (status "timeout": requests.get raises instead), the number of
\* requests.get calls it made, and the database it leaves.
RequestOutcomes(url, d, depth) ==
    IF CacheHit(url, d)
    THEN {[url |-> url, status |-> "hit", page |-> d[url], fetches |-> 0, db |-> d]}
    ELSE {[url |-> url, status |-> r.status, page |-> r.body, fetches |-> 1, db |-> d]
            : r \in SiteResponses(url, depth)}

Raised(out) == out.status = "timeout"

Logged(out, d) ==
    [url |-> out.url, status |-> out.status, page |-> out.page,
     fetches |-> out.fetches, before |-> d, sent |-> Len(net)]

NetAfter(out) ==
    IF out.fetches = 0 THEN net
    ELSE Append(net, [url |-> out.url, status |-> out.status, body |-> out.page])

(***************************************************************************)
(* _get_metro_area_page and _get_metro_area_pages.                         *)
(***************************************************************************)
\* _get_metro_area_page's result for the body _request returned.
get_metro_area_page(page) ==
    [none |-> is_last_page(page),
     body |-> IF is_last_page(page) THEN EmptyBody ELSE page]

\* Python's "not page": None and the empty string are both falsy.
Falsy(r) == r.none \/ r.body = EmptyBody

\* The first strong element at or after <<p, s + 1>>, or <<Len(ps) + 1, 1>>.
RECURSIVE NextPos(_, _, _)
NextPos(ps, p, s) ==
    IF p > Len(ps) THEN <<Len(ps) + 1, 1>>
    ELSE IF s + 1 <= Len(FindAll(ps[p], "strong")) THEN <<p, s + 1>>
    ELSE NextPos(ps, p + 1, 0)

(***************************************************************************)
(* create_playlist, step by step.                                          *)
(***************************************************************************)
Blank ==
    /\ area = 1
    /\ i = 1
    /\ pages = << >>
    /\ asked = << >>
    /\ served = << >>
    /\ pos = <<1, 1>>
    /\ got = << >>
    /\ returned = << >>
    /\ concerts = << >>
    /\ artists = << >>
    /\ batches = << >>
    /\ appended = << >>
    /\ lastReq = NoRequest
    /\ net = << >>
    /\ err = ""

\* main has authorised and calls create_playlist.
Init ==
    /\ args \in {[ids |-> l, year |-> m[1], month |-> m[2]] :
                    l \in IdLists, m \in Months}
    /\ db \in Caches(args)
    /\ site \in Depths(args.ids)
    /\ pc = "start"
    /\ tracks = << >>
    /\ Blank

\* user_playlist_create, clientCAPI(), concerts = []
CreatePlaylist ==
    /\ pc = "start"
    /\ pc' = "area"
    /\ area' = 1
    /\ concerts' = << >>
    /\ UNCHANGED <<site, db, args, i, pages, asked, served, pos, got,
                   returned, artists, tracks, batches, appended, lastReq, net,
                   err>>

\* "for metro_id in ids": get_metro_area_concerts starts, pages = []
BeginScan ==
    /\ pc = "area"
    /\ area <= Len(args.ids)
    /\ pc' = "scan"
    /\ i' = 1
    /\ pages' = << >>
    /\ asked' = << >>
    /\ served' = << >>
    /\ got' = << >>
    /\ UNCHANGED <<site, db, args, area, pos, returned, concerts, artists,
                   tracks, batches, appended, lastReq, net, err>>

\* One turn of "for i in range(1, 31)": _get_metro_area_page(i), then the
\* break or the append.
ScanStep ==
    /\ pc = "scan"
    /\ \E out \in RequestOutcomes(PageUrl(args, args.ids[area], i), db, site) :
        /\ db' = out.db
        /\ lastReq' = Logged(out, db)
        /\ net' = NetAfter(out)
        /\ asked' = Append(asked, i)
        /\ IF Raised(out)
           THEN /\ pc' = "error"
                /\ err' = "requests.exceptions.Timeout"
                /\ UNCHANGED <<i, pages, served, pos>>
           ELSE LET page == get_metro_area_page(out.page)
                    kept == IF Falsy(page) THEN pages ELSE Append(pages, page.body)
                    stop == Falsy(page) \/ i = PageCap
                IN  /\ served' = Append(served, out.page)
                    /\ pages' = kept
                    /\ i' = IF stop THEN i ELSE i + 1
                    /\ pc' = IF stop THEN "extract" ELSE "scan"
                    /\ pos' = IF stop THEN NextPos(kept, 1, 0) ELSE pos
                    /\ err' = err
    /\ UNCHANGED <<site, args, area, got, returned, concerts, artists, tracks,
                   batches, appended>>

\* The deny-list of get_metro_area_concerts.
Skipped == {"Outdoor", "Roskilde Festival 2024", "Copenhell 2024"}

\* One turn of "for strong in strongs".
ExtractStrong ==
    /\ pc = "extract"
    /\ pos[1] <= Len(pages)
    /\ LET strong == FindAll(pages[pos[1]], "strong")[pos[2]]
           concert == strong.name
           next == NextPos(pages, pos[1], pos[2])
       IN  IF concert \in Skipped
           THEN /\ pos' = next
                /\ UNCHANGED <<db, got, lastReq, net, pc, err>>
           ELSE IF get_spotify_artist_uri(concert) # None
           THEN /\ got' = Append(got, concert)
                /\ pos' = next
                /\ UNCHANGED <<db, lastReq, net, pc, err>>
           ELSE IF strong.href = NoHref
           THEN /\ pc' = "error"
                /\ err' = "AttributeError"
                /\ UNCHANGED <<db, got, lastReq, net, pos>>
           ELSE \E out \in RequestOutcomes(strong.href, db, site) :
                    /\ db' = out.db
                    /\ lastReq' = Logged(out, db)
                    /\ net' = NetAfter(out)
                    /\ IF Raised(out)
                       THEN /\ pc' = "error"
                            /\ err' = "requests.exceptions.Timeout"
                            /\ UNCHANGED <<got, pos>>
                       ELSE LET lineup == FindAll(out.page, "lineup")
                            IN  /\ got' = IF lineup = << >> THEN got
                                          ELSE got \o lineup[1].links
                                /\ pos' = next
                                /\ UNCHANGED <<pc, err>>
    /\ UNCHANGED <<site, args, area, i, pages, asked, served, returned,
                   concerts, artists, tracks, batches, appended>>

\* random.shuffle(concerts); return concerts; "concerts += ..."
ReturnConcerts ==
    /\ pc = "extract"
    /\ pos[1] > Len(pages)
    /\ \E shuffled \in Shuffles(got) :
        /\ returned' = shuffled
        /\ concerts' = concerts \o shuffled
    /\ area' = area + 1
    /\ pc' = "area"
    /\ UNCHANGED <<site, db, args, i, pages, asked, served, pos, got, artists,
                   tracks, batches, appended, lastReq, net, err>>

\* artists = get_spotify_artist_uris(concerts)
ResolveArtists ==
    /\ pc = "area"
    /\ area > Len(args.ids)
    /\ artists' \in get_spotify_artist_uris(concerts)
    /\ pc' = "toptracks"
    /\ UNCHANGED <<site, db, args, area, i, pages, asked, served, pos, got,
                   returned, concerts, tracks, batches, appended, lastReq,
                   net, err>>

\* tracks = get_top_track_from_artists(artists)
SelectTracks ==
    /\ pc = "toptracks"
    /\ tracks' = get_top_track_from_artists(artists)
    /\ pc' = "shuffle"
    /\ UNCHANGED <<site, db, args, area, i, pages, asked, served, pos, got,
                   returned, concerts, artists, batches, appended, lastReq,
                   net, err>>

\* random.shuffle(tracks)
ShuffleTracks ==
    /\ pc = "shuffle"
    /\ tracks' \in Shuffles(tracks)
    /\ pc' = "split"
    /\ UNCHANGED <<site, db, args, area, i, pages, asked, served, pos, got,
                   returned, concerts, artists, batches, appended, lastReq,
                   net, err>>

\* split_list_by_n(tracks, 100)
SplitTracks ==
    /\ pc = "split"
    /\ batches' = split_list_by_n(tracks, BatchSize)
    /\ pc' = IF batches' = << >> THEN "done" ELSE "append"
    /\ UNCHANGED <<site, db, args, area, i, pages, asked, served, pos, got,
                   returned, concerts, artists, tracks, appended, lastReq,
                   net, err>>

\* One turn of "for tracks100 in ...": user_playlist_add_tracks(tracks100)
AppendBatch ==
    /\ pc = "append"
    /\ appended' = Append(appended, batches[Len(appended) + 1])
    /\ pc' = IF Len(appended') = Len(batches) THEN "done" ELSE "append"
    /\ UNCHANGED <<site, db, args, area, i, pages, asked, served, pos, got,
                   returned, concerts, artists, tracks, batches, lastReq, net,
                   err>>

Next ==
    \/ CreatePlaylist
    \/ BeginScan
    \/ ScanStep
    \/ ExtractStrong
    \/ ReturnConcerts
    \/ ResolveArtists
    \/ SelectTracks
    \/ ShuffleTracks
    \/ SplitTracks
    \/ AppendBatch

Spec == Init /\ [][Next]_vars

(***************************************************************************)
(* The batching alone, on track lists of every length up to MaxTracks:     *)
(* create_playlist after random.shuffle(tracks), with tracks numbered.     *)
(***************************************************************************)
InitBatch ==
    /\ args = [ids |-> << >>, year |-> 2024, month |-> 2]
    /\ db = << >>
    /\ site = 0
    /\ pc = "split"
    /\ \E n \in 0..MaxTracks : tracks = [k \in 1..n |-> k]
    /\ Blank

NextBatch ==
    \/ SplitTracks
    \/ AppendBatch

SpecBatch == InitBatch /\ [][NextBatch]_vars

(***************************************************************************)
(* One call of _get_metro_area_pages alone, on sites of every depth.       *)
(***************************************************************************)
InitScan ==
    /\ args \in {[ids |-> <<7>>, year |-> m[1], month |-> m[2]] : m \in Months}
    /\ db \in Caches(args)
    /\ site \in 0..PageCap
    /\ pc = "scan"
    /\ tracks = << >>
    /\ Blank

NextScan == ScanStep

SpecScan == InitScan /\ [][NextScan]_vars

(***************************************************************************)
(* The pagination scan (checked under SpecScan).                           *)
(***************************************************************************)
\* _get_metro_area_pages has returned.
ScanReturned == pc = "extract"

\* The smallest index whose served body is a last page, 0 when there is none.
FirstLast(bodies) ==
    IF \E k \in 1..Len(bodies) : is_last_page(bodies[k])
    THEN CHOOSE k \in 1..Len(bodies) :
            /\ is_last_page(bodies[k])
            /\ \A m \in 1..(k - 1) : ~is_last_page(bodies[m])
    ELSE 0

\* C1: one call of _get_metro_area_pages requests at most 30 pages, indices
\* 1, 2, ... in increasing order and each once, and returns fewer than 30
\* pages unless no requested page was recognised as the last page, in which
\* case it returns exactly 30.
C1_AtMost30Pages ==
    /\ Len(asked) <= PageCap
    /\ asked = [k \in 1..Len(asked) |-> k]
    /\ ScanReturned =>
          IF FirstLast(served) # 0 THEN Len(pages) < PageCap
                                   ELSE Len(pages) = PageCap

\* C2: the scan returns the bodies before the first last page, in index
\* order, or all 30 when there is none; every other body, an empty or
\* malformed one included, is kept and does not stop the scan; no page after
\* the first last page is requested; a first page that is the last page
\* gives the empty list and no error.
C2_PagesBeforeFirstLast ==
    ScanReturned =>
        LET k == FirstLast(served)
        IN  IF k = 0
            THEN Len(asked) = PageCap /\ pages = served
            ELSE Len(asked) = k /\ pages = SubSeq(served, 1, k - 1)

\* C9: a page fetch that failed (a timeout or a non-2xx status) aborts the
\* scan with an error: it neither ends the scan as a last page would nor
\* puts its body in the page list.
C9_FailedFetchAborts ==
    (IsListingUrl(lastReq.url) /\ lastReq.status \in {"timeout", "http_error"})
        => pc = "error"

(***************************************************************************)
(* _request and the database (checked under Spec).                         *)
(***************************************************************************)
\* C3: a _request that misses the database stores the fetched body under its
\* key before returning it, so that no key is ever fetched twice and every
\* later _request of the key returns the first fetch's body.
C3_MissIsStored ==
    /\ \A k \in 1..Len(net) :
          net[k].status # "timeout" =>
              net[k].url \in DOMAIN db /\ db[net[k].url] = net[k].body
    /\ \A j, k \in 1..Len(net) : net[j].url = net[k].url => j = k

\* The last _request found its key in the database.
LastWasHit == lastReq.status # "none" /\ lastReq.url \in DOMAIN lastReq.before

\* C4: a _request of a key the database holds returns the stored value,
\* makes no requests.get call and leaves the database as it was; a call
\* takes its result from the database or from one live fetch, never both.
C4_HitReturnsStored ==
    /\ LastWasHit =>
          /\ lastReq.page = lastReq.before[lastReq.url]
          /\ lastReq.fetches = 0
          /\ Len(net) = lastReq.sent
          /\ db = lastReq.before
    /\ (lastReq.status # "none" /\ ~LastWasHit) =>
          /\ lastReq.fetches = 1
          /\ Len(net) = lastReq.sent + 1
          /\ net[Len(net)].url = lastReq.url
          /\ lastReq.status # "timeout" => lastReq.page = net[Len(net)].body

C4_Witness ==
    /\ LastWasHit
    /\ lastReq.page = PageAB
    /\ pc = "scan"

(***************************************************************************)
(* The batching (checked under SpecBatch).                                 *)
(***************************************************************************)
Sizes(bs) == [k \in 1..Len(bs) |-> Len(bs[k])]

\* C5: the batches appended, in call order, concatenate to the track list;
\* no batch holds more than 100 tracks and every batch but the last holds
\* exactly 100; 250 tracks go out as batches of 100, 100 and 50.
C5_BatchesCoverTracks ==
    /\ \A k \in 1..Len(appended) : Len(appended[k]) <= BatchSize
    /\ \A k \in 1..(Len(appended) - 1) : Len(appended[k]) = BatchSize
    /\ pc = "done" =>
          /\ Concat(appended) = tracks
          /\ Len(tracks) = 250 => Sizes(appended) = <<100, 100, 50>>

C5_Witness ==
    /\ pc = "done"
    /\ Len(tracks) = 250
    /\ Len(appended) = 3
    /\ appended[3] = [k \in 1..50 |-> 200 + k]

\* ceil(a / b) for a >= 0, b > 0
CeilDiv(a, b) == (a + b - 1) \div b

\* C10: no append call carries an empty batch, so the number of append
\* calls for a track list T is ceil(len(T) / 100), also for the empty list
\* and for a length that is a multiple of 100.
C10_NoEmptyBatch ==
    /\ \A k \in 1..Len(appended) : Len(appended[k]) >= 1
    /\ pc = "done" => Len(appended) = CeilDiv(Len(tracks), BatchSize)

(***************************************************************************)
(* The extraction and the assembly (checked under Spec).                   *)
(***************************************************************************)
\* get_metro_area_concerts has just returned: got still holds its list as
\* the loops built it, page by page and strong by strong.
ConcertsReturned == pc = "area" /\ area > 1

\* C6 as stated: get_metro_area_concerts returns the names in page order
\* and, within a page, in document order.
C6_OrderPreserved == ConcertsReturned => returned = got

\* C6 as amended: get_metro_area_concerts returns the extracted names with
\* their multiplicities, nothing added, dropped or merged, in an order that
\* random.shuffle picks.
C6_SameNamesAnyOrder == ConcertsReturned => SameBag(returned, got)

C6_Witness ==
    /\ ConcertsReturned
    /\ got = <<"Artist A", "Artist C", "Artist A", "Artist E">>
    /\ returned = <<"Artist E", "Artist A", "Artist C", "Artist A">>

\* The names that resolve: the search's first item has the name, ignoring
\* case.
ExactMatch(name) ==
    /\ Search(name) # << >>
    /\ Lower(Search(name)[1].name) = Lower(name)

Resolved(names) == {Search(n)[1].uri : n \in {m \in Range(names) : ExactMatch(m)}}

ArtistsPassed == pc \in {"toptracks", "shuffle", "split", "append", "done"}

\* C8: the artist list passed to get_top_track_from_artists holds no
\* identity twice and holds exactly the identities of the concert names
\* that resolve by exact case-insensitive match.
C8_ArtistsDistinct ==
    ArtistsPassed =>
        /\ NoDuplicates(artists)
        /\ Range(artists) = Resolved(concerts)

\* The same artist under two names and in two areas.
C8_Witness ==
    /\ pc = "toptracks"
    /\ Len(args.ids) = 2
    /\ Count(concerts, "Artist A") >= 2
    /\ artists = <<"spotify:artist:C", "spotify:artist:A">>

\* A query with one page, whose strong elements are Artist A and Artist B:
\* the scan has returned that page and the run has ended.
StrongNames(page) ==
    [k \in 1..Len(FindAll(page, "strong")) |-> FindAll(page, "strong")[k].name]

ScenarioAB ==
    /\ Len(args.ids) = 1
    /\ Len(pages) = 1
    /\ StrongNames(pages[1]) = <<"Artist A", "Artist B">>
    /\ \/ pc = "done"
       \/ pc = "error" /\ (err = "AttributeError" \/ ~IsListingUrl(lastReq.url))

TopTrackSet(uris) == {TopTracks(u)[1] : u \in {v \in uris : TopTracks(v) # << >>}}

=============================================================================
